---- MODULE Spec2Model ----
(***************************************************************************)
(* Model of the project-management handlers (src/handlers/handlers.py):    *)
(* the schema registry, project creation, type detection, structure        *)
(* analysis, compliance scoring, auto-fix and restructuring (one call at a *)
(* time, and two restructuring calls at once), on one project directory,   *)
(* and of the scripts ProjectRestructurer (src/test-restructure.py) and    *)
(* ProjectValidator (src/test-validator.py) acting on the same directory.  *)
(*                                                                         *)
(* A path is a sequence of names: "data/raw" is <<"data", "raw">>.  A      *)
(* top-level entry name n is the path <<n>>, so that the string equality   *)
(* the code uses between a required path and a listed name is equality of  *)
(* paths.  Python lists are sequences.  The float arithmetic of the score  *)
(* is modelled by exact rational arithmetic; the registries below are ones *)
(* on which the two agree.                                                 *)
(***************************************************************************)
EXTENDS Integers, Sequences, FiniteSets, TLC

VARIABLES
    config_file,   \* content of config/config.json: "absent" or the name of an external document
    root_exists,   \* whether the project directory exists
    dirs,          \* the directories below the project root, as a set of paths
    files,         \* the files below the project root: a function from path to content
    result,        \* the envelope returned by the last operation
    calls          \* two restructure_project calls running at the same time: how far each has got

vars == <<config_file, root_exists, dirs, files, result, calls>>

----------------------------------------------------------------------------
(* Bounds *)

\* Largest number of top-level entries (directories and files) of a tree the
\* operations start from, when all operations run (Spec).
MaxInitEntries == 2

\* The same, when only the read-only analysis and its auto-fix run (SpecAnalysis).
MaxAnalysisEntries == 3

\* Number of top-level directory names that no registry mentions.
MaxJunk == 1

\* Largest number of characters of a project name given to create_project.
MaxNameLen == 3

\* Largest number of top-level entries of a project path create_project,
\* validate_project or get_project_status is called on once (SpecCreate).
MaxCreateEntries == 1

\* Largest number of top-level entries of a tree the scripts start from
\* (SpecScripts).
MaxScriptEntries == 2

\* The same, for a single call of a restructuring operation (SpecRestructure).
MaxRestructureEntries == 3

\* Largest number of top-level entries of a tree two concurrent
\* restructure_project calls start from.
MaxRaceEntries == 2

----------------------------------------------------------------------------
(* Sequences as Python lists *)

SeqToSet(s) == {s[i] : i \in DOMAIN s}

\* Python's `x in s` on a list
Contains(s, x) == \E i \in DOMAIN s : s[i] = x

\* the positions of s that hold the first occurrence of their element
FirstOccurrences(s) ==
    SelectSeq([i \in DOMAIN s |-> i], LAMBDA i : \A j \in 1..(i - 1) : s[j] # s[i])

\* s without its repetitions, each element where it occurs first
Dedup(s) == [k \in DOMAIN FirstOccurrences(s) |-> s[FirstOccurrences(s)[k]]]

\* every ancestor of a path and the path itself: what mkdir(parents=True) creates
Ancestors(p) == {SubSeq(p, 1, i) : i \in 1..Len(p)}

IsPrefix(p, q) == Len(p) <= Len(q) /\ SubSeq(q, 1, Len(p)) = p

----------------------------------------------------------------------------
(* Schema registry *)

TemplateFileNames == <<"README.md", ".gitignore", "project.yml", ".project-config.json">>

DefaultScoringWeights ==
    [directories |-> 40, required_files |-> 35, content_quality |-> 15, git_integration |-> 10]

\* the built-in configuration of get_project_config
DefaultConfig ==
    [project_types |-> <<
        [name |-> "research-project",
         required_dirs |-> << <<"claude-code">>, <<"data", "raw">>, <<"data", "processed">>,
                              <<"codes", "scripts">>, <<"paper", "sections">>, <<"pre", "literature">> >>,
         optional_dirs |-> << <<"data", "external">>, <<"codes", "notebooks">>,
                              <<"paper", "figures">>, <<"pre", "proposals">> >>,
         required_files |-> TemplateFileNames],
        [name |-> "data-analysis",
         required_dirs |-> << <<"claude-code">>, <<"data", "raw">>, <<"data", "processed">>,
                              <<"codes", "etl">>, <<"codes", "analysis">>, <<"reports", "drafts">> >>,
         optional_dirs |-> << <<"data", "exports">>, <<"codes", "models">>,
                              <<"codes", "visualization">>, <<"reports", "presentations">> >>,
         required_files |-> TemplateFileNames],
        [name |-> "paper-writing",
         required_dirs |-> << <<"claude-code">>, <<"data", "figures">>, <<"data", "tables">>,
                              <<"codes", "analysis">>, <<"paper", "chapters">>, <<"pre", "outlines">> >>,
         optional_dirs |-> << <<"data", "supplementary">>, <<"paper", "sections">>,
                              <<"pre", "drafts">>, <<"pre", "reviews">> >>,
         required_files |-> TemplateFileNames],
        [name |-> "general",
         required_dirs |-> << <<"claude-code">>, <<"data">>, <<"codes">>, <<"paper">>, <<"pre">> >>,
         optional_dirs |-> <<>>,
         required_files |-> TemplateFileNames] >>,
     scoring_weights |-> DefaultScoringWeights]

\* External documents config/config.json may hold.  json.load returns the
\* document as it is: nothing is merged with, or checked against, the defaults.
ExternalDocs ==
    [flat |->
        [project_types |-> <<
            [name |-> "alpha",
             required_dirs |-> << <<"data">>, <<"codes">> >>,
             optional_dirs |-> << <<"docs">> >>,
             required_files |-> <<"README.md", "project.yml">>],
            [name |-> "beta",
             required_dirs |-> << <<"data">>, <<"paper">> >>,
             optional_dirs |-> <<>>,
             required_files |-> <<"README.md", "project.yml">>],
            [name |-> "general",
             required_dirs |-> << <<"claude-code">>, <<"data">>, <<"codes">>, <<"paper">>, <<"pre">> >>,
             optional_dirs |-> <<>>,
             required_files |-> <<"README.md", "project.yml">>] >>,
         scoring_weights |->
            [directories |-> 50, required_files |-> 30, content_quality |-> 10, git_integration |-> 10]],
     wide |->
        [project_types |-> <<
            [name |-> "survey",
             required_dirs |-> << <<"s0">>, <<"s1">>, <<"s2">>, <<"s3">>, <<"s4">>,
                                  <<"s5">>, <<"s6">>, <<"s7">>, <<"s8">>, <<"s9">> >>,
             optional_dirs |-> <<>>,
             required_files |-> <<"README.md">>],
            [name |-> "general",
             required_dirs |-> << <<"s0">>, <<"data">> >>,
             optional_dirs |-> <<>>,
             required_files |-> <<"README.md">>] >>,
         scoring_weights |-> DefaultScoringWeights],
     nogeneral |->
        [project_types |-> <<
            [name |-> "custom",
             required_dirs |-> << <<"src">>, <<"docs">>, <<"tests">> >>,
             optional_dirs |-> <<>>,
             required_files |-> <<"README.md">>] >>,
         scoring_weights |-> DefaultScoringWeights],
     nodirs |->
        [project_types |-> <<
            [name |-> "general",
             required_dirs |-> << <<"data">>, <<"codes">> >>,
             optional_dirs |-> <<>>,
             required_files |-> <<"README.md">>],
            [name |-> "scratch",
             required_dirs |-> <<>>,
             optional_dirs |-> << <<"tmp">> >>,
             required_files |-> <<"README.md">>] >>,
         scoring_weights |-> DefaultScoringWeights],
     nofiles |->
        [project_types |-> <<
            [name |-> "general",
             required_dirs |-> << <<"data">>, <<"codes">> >>,
             optional_dirs |-> <<>>,
             required_files |-> <<>>] >>,
         scoring_weights |-> DefaultScoringWeights]]

ConfigFiles == {"absent"} \cup DOMAIN ExternalDocs

\* get_project_config(): the external document if config.json exists, else the defaults
get_project_config == IF config_file = "absent" THEN DefaultConfig ELSE ExternalDocs[config_file]

TypeNames(config) == {config.project_types[i].name : i \in DOMAIN config.project_types}

HasType(config, t) == t \in TypeNames(config)

\* config['project_types'][t], defined when HasType(config, t)
TypeConfig(config, t) ==
    config.project_types[CHOOSE i \in DOMAIN config.project_types : config.project_types[i].name = t]


----------------------------------------------------------------------------
(* The project directory *)

NoneValue == "None"

ReservedNames == <<".git", ".claude", ".claude-plugin", "__pycache__">>

JunkNames == SubSeq(<<"junk", "temp", "old", "misc", "tmp1", "tmp2">>, 1, MaxJunk)

RECURSIVE SchemaPaths(_)
SchemaPaths(types) ==
    IF types = <<>> THEN <<>>
    ELSE Head(types).required_dirs \o Head(types).optional_dirs \o SchemaPaths(Tail(types))

TopNamesOf(paths) == [i \in DOMAIN paths |-> paths[i][1]]

\* The top-level directory names the trees of Init hold under a configuration.
SchemaListing(config) ==
    Dedup(TopNamesOf(SchemaPaths(config.project_types)) \o ReservedNames \o JunkNames)

\* a directory name the heuristic of ProjectRestructurer._detect_project_type
\* looks for
HeuristicNames == <<"raw">>

\* a top-level directory that carries the name of a template file
ClashNames == <<"README.md">>

\* The listing order of every configuration get_project_config can return.
ListingOrders ==
    [config \in {DefaultConfig} \cup {ExternalDocs[d] : d \in DOMAIN ExternalDocs} |->
        Dedup(SchemaListing(config) \o HeuristicNames \o ClashNames)]

\* The top-level directory names a tree may hold under a configuration, in
\* the order project_path.iterdir() lists them.
ListingOrder(config) == ListingOrders[config]

\* top-level files that are no template file
LooseFileNames == <<"notes.txt">>

\* the top-level file names the trees of Init hold, in listing order
FileListingOrder == TemplateFileNames \o LooseFileNames

\* top-level files with an extension the restructuring script routes
RoutedFileNames == <<"analysis.py", "draft.md", "table.csv">>

\* the top-level file names a tree may hold, in listing order
AllFileNames == FileListingOrder \o RoutedFileNames

UserContent == [origin |-> "user", project_type |-> "", vars |-> ""]

\* other text of the user's
OtherUserContent == [origin |-> "user", project_type |-> "", vars |-> "other"]

\* the text _generate_template_files writes: it depends on the template
\* variables of the calling operation
TemplateContent(project_type, caller) ==
    [origin |-> "template", project_type |-> project_type, vars |-> caller]

\* each name of a listing as a path
PathsOf(names) == [i \in DOMAIN names |-> <<names[i]>>]

\* [d.name for d in project_path.iterdir() if d.is_dir()], each name as a path
existing_dirs_of(config, ds) ==
    PathsOf(SelectSeq(ListingOrder(config), LAMBDA n : <<n>> \in ds))

\* [f.name for f in project_path.iterdir() if f.is_file()]
existing_files_of(fs) ==
    SelectSeq(AllFileNames, LAMBDA n : <<n>> \in DOMAIN fs)

NoArgs ==
    [fix_issues |-> FALSE, strict_mode |-> FALSE, backup |-> FALSE,
     remove_nonstandard |-> FALSE, target_type |-> NoneValue, include_git |-> FALSE,
     structure |-> "fallback",
     project_name |-> <<>>, project_type |-> NoneValue, force |-> FALSE, git_init |-> FALSE]

\* The fields of the envelopes the operations return, with the value a
\* field has when the operation does not set it.  pre is the tree the
\* operation started from and detected the value _detect_project_type gave.
\* message is "" and errors <<>> in an envelope without that key; error is the
\* 'error' key of the envelopes of the scripts; raised names an exception
\* that left the operation instead of an envelope.
EmptyEnvelope ==
    [op |-> "none", success |-> FALSE, message |-> "", errors |-> <<>>, error |-> "",
     raised |-> "", args |-> NoArgs,
     pre |-> [dirs |-> {}, files |-> <<>>],
     detected |-> "not-run", project_type |-> "",
     compliance_score |-> -1,
     required_dirs_present |-> <<>>, required_files_present |-> <<>>,
     missing_dirs |-> <<>>, missing_files |-> <<>>,
     extra_dirs |-> <<>>, extra_files |-> <<>>, extra_items |-> {},
     issues_found |-> <<>>, fixed_dirs |-> <<>>, fixed_files |-> <<>>,
     created_directories |-> <<>>, removed_directories |-> <<>>, moved_files |-> <<>>,
     backup_taken |-> FALSE,
     total_directories |-> -1, total_files |-> -1, git_info |-> "null",
     root_existed |-> FALSE, created_files |-> <<>>, git_initialized |-> FALSE]

\* the except clause of every handler: success False, a message, data {},
\* errors [str(e)].  Of what the call had computed only the record of the
\* call itself is kept.
Failure(env, e) ==
    [EmptyEnvelope EXCEPT !.op = env.op, !.args = env.args, !.pre = env.pre,
                          !.detected = env.detected, !.backup_taken = env.backup_taken,
                          !.root_existed = env.root_existed,
                          !.message = "failed", !.errors = <<e>>]

----------------------------------------------------------------------------
(* Type detection: _detect_project_type *)

\* a required path counted when its first component is in the listing
matches_by_parent(required_dirs, existing_dirs) ==
    Cardinality({j \in DOMAIN required_dirs : Contains(existing_dirs, <<required_dirs[j][1]>>)})

\* matches = sum(1 for dir_name in required_dirs if dir_name in existing_dirs)
matches_of(required_dirs, existing_dirs) ==
    Cardinality({j \in DOMAIN required_dirs : Contains(existing_dirs, required_dirs[j])})

ScoreBeatsOrTies(num, den, bnum, bden) == num * bden >= bnum * den

\* `score > best_score`, the scores being the fractions num/den and bnum/bden
ScoreBeats(num, den, bnum, bden) == num * bden > bnum * den

AboveThresholdInclusive(bnum, bden) == 10 * bnum >= 3 * bden

\* `best_score > 0.3`
AboveThreshold(bnum, bden) == 10 * bnum > 3 * bden

\* The loop over config['project_types'].items(), from entry i on.  The
\* division by len(required_dirs) raises ZeroDivisionError on an empty list.
RECURSIVE DetectLoop(_, _, _, _, _, _)
DetectLoop(types, i, existing_dirs, best_match, bnum, bden) ==
    IF i > Len(types)
    THEN [raised |-> FALSE, best_match |-> best_match, bnum |-> bnum, bden |-> bden]
    ELSE LET required_dirs == types[i].required_dirs
             matches == matches_of(required_dirs, existing_dirs)
         IN  IF Len(required_dirs) = 0
             THEN [raised |-> TRUE, best_match |-> best_match, bnum |-> bnum, bden |-> bden]
             ELSE IF ScoreBeats(matches, Len(required_dirs), bnum, bden)
                  THEN DetectLoop(types, i + 1, existing_dirs, types[i].name,
                                  matches, Len(required_dirs))
                  ELSE DetectLoop(types, i + 1, existing_dirs, best_match, bnum, bden)

\* `return best_match if best_score > 0.3 else None`, or the exception raised
DetectReturn(loop) ==
    IF loop.raised THEN [raised |-> TRUE, value |-> "ZeroDivisionError"]
    ELSE [raised |-> FALSE,
          value |-> IF AboveThreshold(loop.bnum, loop.bden)
                    THEN loop.best_match ELSE NoneValue]

\* _detect_project_type(project_path) on the tree ds: a type name, NoneValue,
\* or the exception it raises
detect_project_type(config, ds) ==
    DetectReturn(DetectLoop(config.project_types, 1, existing_dirs_of(config, ds),
                            NoneValue, 0, 1))

----------------------------------------------------------------------------
(* Template files: _generate_template_files *)

\* The loop over templates.items(), from template i on, in a project that
\* holds the directories ds; returns the files and the list created_files.
\* file_path.exists() is true of a file and of a directory of that name;
\* open(file_path, 'w') on a directory raises IsADirectoryError.
RECURSIVE TemplateLoop(_, _, _, _, _, _, _)
TemplateLoop(i, ds, fs, created_files, content, update_existing, missing_only) ==
    IF i > Len(TemplateFileNames)
    THEN [files |-> fs, created_files |-> created_files, raised |-> FALSE]
    ELSE LET filename == TemplateFileNames[i]
             file_path == <<filename>>
             present == file_path \in DOMAIN fs \/ file_path \in ds
         IN  IF missing_only /\ present
             THEN TemplateLoop(i + 1, ds, fs, created_files, content, update_existing, missing_only)
             ELSE IF ~present \/ update_existing
                  THEN IF file_path \in ds
                       THEN [files |-> fs, created_files |-> created_files, raised |-> TRUE]
                       ELSE TemplateLoop(i + 1, ds,
                                         [q \in DOMAIN fs \cup {file_path} |->
                                             IF q = file_path THEN content ELSE fs[q]],
                                         Append(created_files, filename),
                                         content, update_existing, missing_only)
                  ELSE TemplateLoop(i + 1, ds, fs, created_files, content, update_existing, missing_only)

generate_template_files(ds, fs, content, update_existing, missing_only) ==
    TemplateLoop(1, ds, fs, <<>>, content, update_existing, missing_only)

----------------------------------------------------------------------------
(* Structure analysis and scoring: validate_project *)

\* missing_dirs = [d for d in required_dirs if d not in existing_dirs]
missing_of(required, existing) == SelectSeq(required, LAMBDA d : ~Contains(existing, d))

present_of(required, existing) == SelectSeq(required, LAMBDA d : Contains(existing, d))

NotExtraDirsNoPycache(required_dirs, optional_dirs) ==
    required_dirs \o optional_dirs \o << <<".git">>, <<".claude">>, <<".claude-plugin">> >>

\* required_dirs + optional_dirs + ['.git', '.claude', '.claude-plugin', '__pycache__']
NotExtraDirs(required_dirs, optional_dirs) ==
    required_dirs \o optional_dirs \o
        << <<".git">>, <<".claude">>, <<".claude-plugin">>, <<"__pycache__">> >>

\* extra_dirs = [d for d in existing_dirs if d not in required_dirs + optional_dirs + [...]]
extra_dirs_of(existing_dirs, required_dirs, optional_dirs) ==
    SelectSeq(existing_dirs, LAMBDA d : ~Contains(NotExtraDirs(required_dirs, optional_dirs), d))

StartsWithDot(name) == name \in {".gitignore", ".project-config.json"}

\* extra_files = [f for f in existing_files if f not in required_files and not f.startswith('.')]
extra_files_of(existing_files, required_files) ==
    SelectSeq(existing_files, LAMBDA f : ~Contains(required_files, f) /\ ~StartsWithDot(f))

Max0(x) == IF x > 0 THEN x ELSE 0

content_score_always(weights, missing_files) == weights.content_quality

\* content_score = score_weights['content_quality'] if not missing_files else 0
content_score_of(weights, missing_files) ==
    IF missing_files = <<>> THEN weights.content_quality ELSE 0

\* git_score = score_weights['git_integration'] if (project_path / '.git').exists() else 0
git_score_of(weights, ds) ==
    IF <<".git">> \in ds THEN weights.git_integration ELSE 0

compliance_score_unscaled(nd, n_missing_dirs, nf, n_missing_files, weights, content_score, git_score) ==
    Max0((nd - n_missing_dirs) * weights.directories)
        + Max0((nf - n_missing_files) * weights.required_files) + content_score + git_score

\* int(dir_score + file_score + content_score + git_score), for non-empty
\* required lists: the two quotients are added as fractions over the common
\* denominator nd * nf and the sum is truncated.
compliance_score_of(nd, n_missing_dirs, nf, n_missing_files, weights, content_score, git_score) ==
    LET dir_num  == Max0((nd - n_missing_dirs) * weights.directories)
        file_num == Max0((nf - n_missing_files) * weights.required_files)
    IN  ((dir_num * nf + file_num * nd) \div (nd * nf)) + content_score + git_score

\* the issues, by category, in the order the code appends them
issues_of(missing_dirs, missing_files, extra_dirs, strict_mode) ==
    (IF missing_dirs # <<>> THEN <<"missing_dirs">> ELSE <<>>) \o
    (IF missing_files # <<>> THEN <<"missing_files">> ELSE <<>>) \o
    (IF extra_dirs # <<>> /\ strict_mode THEN <<"extra_dirs">> ELSE <<>>)

\* for dir_path in missing_dirs: full_path.mkdir(parents=True, exist_ok=True)
RECURSIVE MkdirAll(_, _)
MkdirAll(ds, paths) ==
    IF paths = <<>> THEN ds ELSE MkdirAll(ds \cup Ancestors(Head(paths)), Tail(paths))

\* what a call that changed nothing returns
Unchanged(env, ds, fs) == [envelope |-> env, dirs |-> ds, files |-> fs]

\* the record of a validate_project call before it has computed anything
ValidateCall(ds, fs, fix_issues, strict_mode, detected) ==
    [EmptyEnvelope EXCEPT
        !.op = "validate",
        !.args = [NoArgs EXCEPT !.fix_issues = fix_issues, !.strict_mode = strict_mode],
        !.pre = [dirs |-> ds, files |-> fs],
        !.detected = detected]

\* `if fix_issues:` the missing directories are created and the missing
\* template files generated, fixed being what _generate_template_files returns
ValidateFix(env, ds, missing_dirs, fixed) ==
    [envelope |-> [env EXCEPT !.fixed_dirs = missing_dirs,
                              !.fixed_files = fixed.created_files],
     dirs |-> MkdirAll(ds, missing_dirs),
     files |-> fixed.files]

FixAlways(fix_issues) == TRUE

\* `if fix_issues:` the fixes are applied only on request
FixRequested(fix_issues) == fix_issues

\* validate_project from the compliance score on, the analysis being done
ValidateScore(env, ds, fs, fix_issues, strict_mode, config, project_type, required_dirs, required_files, existing_dirs, existing_files, missing_dirs, missing_files, extra_dirs) ==
    IF Len(required_dirs) = 0 \/ Len(required_files) = 0
    THEN Unchanged(Failure(env, "ZeroDivisionError"), ds, fs)
    ELSE
    LET score_weights == config.scoring_weights
        env2 == [env EXCEPT
                    !.success = TRUE,
                    !.message = "Validation completed",
                    !.project_type = project_type,
                    !.compliance_score =
                        compliance_score_of(Len(required_dirs), Len(missing_dirs),
                                            Len(required_files), Len(missing_files),
                                            score_weights,
                                            content_score_of(score_weights, missing_files),
                                            git_score_of(score_weights, ds)),
                    !.required_dirs_present = present_of(required_dirs, existing_dirs),
                    !.required_files_present = present_of(required_files, existing_files),
                    !.missing_dirs = missing_dirs,
                    !.missing_files = missing_files,
                    !.extra_dirs = extra_dirs,
                    !.extra_files = extra_files_of(existing_files, required_files),
                    !.issues_found = issues_of(missing_dirs, missing_files, extra_dirs, strict_mode)]
    IN  IF FixRequested(fix_issues)
        THEN ValidateFix(env2, ds, missing_dirs,
                         generate_template_files(MkdirAll(ds, missing_dirs), fs,
                                                 TemplateContent(project_type, "validate"),
                                                 FALSE, TRUE))
        ELSE Unchanged(env2, ds, fs)

\* validate_project from the structure analysis on, the schema being chosen
ValidateAnalyse(env, ds, fs, fix_issues, strict_mode, config, project_type, project_type_config, existing_dirs, existing_files) ==
    ValidateScore(env, ds, fs, fix_issues, strict_mode, config, project_type,
                  project_type_config.required_dirs, project_type_config.required_files,
                  existing_dirs, existing_files,
                  missing_of(project_type_config.required_dirs, existing_dirs),
                  missing_of(project_type_config.required_files, existing_files),
                  extra_dirs_of(existing_dirs, project_type_config.required_dirs,
                                project_type_config.optional_dirs))

\* `if not project_type: project_type = "general"`
FallbackType(value) == IF value = NoneValue THEN "general" ELSE value

\* validate_project once _detect_project_type has returned det (or raised)
ValidateDetected(ds, fs, fix_issues, strict_mode, config, det) ==
    IF det.raised
    THEN Unchanged(Failure(ValidateCall(ds, fs, fix_issues, strict_mode, "raised"), det.value),
                   ds, fs)
    ELSE IF ~HasType(config, FallbackType(det.value))
    THEN Unchanged(Failure(ValidateCall(ds, fs, fix_issues, strict_mode, det.value), "KeyError"),
                   ds, fs)
    ELSE ValidateAnalyse(ValidateCall(ds, fs, fix_issues, strict_mode, det.value),
                         ds, fs, fix_issues, strict_mode, config, FallbackType(det.value),
                         TypeConfig(config, FallbackType(det.value)),
                         existing_dirs_of(config, ds), existing_files_of(fs))

\* validate_project(payload) on the tree (ds, fs): the envelope it returns
\* and the tree it leaves.
validate_project(ds, fs, fix_issues, strict_mode) ==
    IF ~root_exists
    THEN Unchanged(Failure(ValidateCall(ds, fs, fix_issues, strict_mode, "not-run"),
                           "ValidationError"), ds, fs)
    ELSE ValidateDetected(ds, fs, fix_issues, strict_mode, get_project_config,
                          detect_project_type(get_project_config, ds))

----------------------------------------------------------------------------
(* restructure_project *)

\* The loop creating the missing required directories, from entry i on:
\* `if not full_path.exists(): full_path.mkdir(parents=True, exist_ok=True)`
RECURSIVE CreateLoop(_, _, _, _)
CreateLoop(required_dirs, i, ds, created_dirs) ==
    IF i > Len(required_dirs) THEN [dirs |-> ds, created_dirs |-> created_dirs]
    ELSE LET dir_path == required_dirs[i]
         IN  IF dir_path \notin ds
             THEN CreateLoop(required_dirs, i + 1, ds \cup Ancestors(dir_path),
                             Append(created_dirs, dir_path))
             ELSE CreateLoop(required_dirs, i + 1, ds, created_dirs)

\* the test without its list of kept names
IsNonstandardNoneKept(existing_dir, all_standard_dirs) ==
    existing_dir \notin all_standard_dirs

\* existing_dir.name not in all_standard_dirs and
\* existing_dir.name not in ['.git', '.claude', '.claude-plugin']
IsNonstandard(existing_dir, all_standard_dirs) ==
    /\ existing_dir \notin all_standard_dirs
    /\ existing_dir \notin { <<".git">>, <<".claude">>, <<".claude-plugin">> }

\* shutil.rmtree(top): the directory and everything below it
Rmtree(ds, top) == {q \in ds : ~IsPrefix(top, q)}

RmtreeFiles(fs, top) ==
    [q \in {r \in DOMAIN fs : ~IsPrefix(top, r)} |-> fs[q]]

\* The loop over existing_dirs that removes the nonstandard ones, from entry i on.
RECURSIVE RemoveLoop(_, _, _, _, _, _)
RemoveLoop(existing_dirs, i, all_standard_dirs, ds, fs, removed_dirs) ==
    IF i > Len(existing_dirs) THEN [dirs |-> ds, files |-> fs, removed_dirs |-> removed_dirs]
    ELSE LET existing_dir == existing_dirs[i]
         IN  IF IsNonstandard(existing_dir, all_standard_dirs)
             THEN RemoveLoop(existing_dirs, i + 1, all_standard_dirs,
                             Rmtree(ds, existing_dir), RmtreeFiles(fs, existing_dir),
                             Append(removed_dirs, existing_dir))
             ELSE RemoveLoop(existing_dirs, i + 1, all_standard_dirs, ds, fs, removed_dirs)

BackupFailureIgnored(do_backup, copy_ok) == FALSE

\* `if backup:` shutil.copytree raises
BackupFails(do_backup, copy_ok) == do_backup /\ ~copy_ok

\* the record of a restructure_project call before it has computed anything
RestructureCall(ds, fs, do_backup, remove_nonstandard, target_type, backup_taken, detected) ==
    [EmptyEnvelope EXCEPT
        !.op = "restructure",
        !.args = [NoArgs EXCEPT !.backup = do_backup,
                                !.remove_nonstandard = remove_nonstandard,
                                !.target_type = target_type],
        !.pre = [dirs |-> ds, files |-> fs],
        !.backup_taken = backup_taken,
        !.detected = detected]

\* the end of restructure_project: the template files are written
\* (update_existing=True) and the envelope returned
RestructureReturn(env, target_type, created, removed, generated) ==
    IF generated.raised
    THEN [envelope |-> Failure(env, "IsADirectoryError"),
          dirs |-> removed.dirs, files |-> generated.files]
    ELSE
    [envelope |-> [env EXCEPT !.success = TRUE,
                              !.message = "Project restructured successfully",
                              !.project_type = target_type,
                              !.created_directories = created.created_dirs,
                              !.removed_directories = removed.removed_dirs],
     dirs |-> removed.dirs,
     files |-> generated.files]

\* `if remove_nonstandard:` the loop over the directories listed at the start
RestructureRemove(env, fs, remove_nonstandard, target_type, existing_dirs, all_standard_dirs, created, content) ==
    IF remove_nonstandard
    THEN LET removed == RemoveLoop(existing_dirs, 1, all_standard_dirs, created.dirs, fs, <<>>)
         IN  RestructureReturn(env, target_type, created, removed,
                               generate_template_files(removed.dirs, removed.files, content,
                                                       TRUE, FALSE))
    ELSE RestructureReturn(env, target_type, created,
                           [dirs |-> created.dirs, files |-> fs, removed_dirs |-> <<>>],
                           generate_template_files(created.dirs, fs, content, TRUE, FALSE))

\* restructure_project from the creation of the missing directories on
RestructureApply(env, ds, fs, remove_nonstandard, target_type, project_type_config, existing_dirs) ==
    RestructureRemove(env, fs, remove_nonstandard, target_type, existing_dirs,
                      SeqToSet(project_type_config.required_dirs \o
                               project_type_config.optional_dirs),
                      CreateLoop(project_type_config.required_dirs, 1, ds, <<>>),
                      TemplateContent(target_type, "restructure"))

\* restructure_project once the target type is given or detected: det is what
\* _detect_project_type returned, or "not-run" with a target_type;
\* backup_taken is whether the backup copy was made
RestructureDetected(ds, fs, do_backup, backup_taken, remove_nonstandard, target_type, config, det) ==
    IF det.raised
    THEN Unchanged(Failure(RestructureCall(ds, fs, do_backup, remove_nonstandard, target_type,
                                           backup_taken, "raised"), det.value), ds, fs)
    ELSE LET target_type2 == FallbackType(IF target_type = NoneValue
                                          THEN det.value ELSE target_type)
             env == RestructureCall(ds, fs, do_backup, remove_nonstandard, target_type,
                                    backup_taken, det.value)
         IN  IF ~HasType(config, target_type2)
             THEN Unchanged(Failure(env, "KeyError"), ds, fs)
             ELSE RestructureApply(env, ds, fs, remove_nonstandard, target_type2,
                                   TypeConfig(config, target_type2),
                                   existing_dirs_of(config, ds))

\* restructure_project(payload) on the tree (ds, fs).  copy_ok is whether
\* shutil.copytree succeeds.  Returns the envelope and the tree; the backup
\* copy, a sibling of the project directory that no operation reads, is
\* envelope.pre when envelope.backup_taken.
restructure_project(ds, fs, do_backup, remove_nonstandard, target_type, copy_ok) ==
    IF ~root_exists
    THEN Unchanged(Failure(RestructureCall(ds, fs, do_backup, remove_nonstandard, target_type,
                                           FALSE, "not-run"), "RestructureError"), ds, fs)
    ELSE IF BackupFails(do_backup, copy_ok)
    THEN Unchanged(Failure(RestructureCall(ds, fs, do_backup, remove_nonstandard, target_type,
                                           FALSE, "not-run"), "OSError"), ds, fs)
    ELSE RestructureDetected(ds, fs, do_backup, do_backup /\ copy_ok, remove_nonstandard,
                             target_type, get_project_config,
                             IF target_type = NoneValue
                             THEN detect_project_type(get_project_config, ds)
                             ELSE [raised |-> FALSE, value |-> "not-run"])

----------------------------------------------------------------------------
(* get_project_status *)

HiddenNames == {".git", ".claude", ".claude-plugin", ".gitignore", ".project-config.json"}

\* os.walk with `dirs[:] = [d for d in dirs if not d.startswith('.')]`:
\* the directories none of whose components is hidden
WalkedDirs(ds) == {q \in ds : \A i \in DOMAIN q : q[i] \notin HiddenNames}

\* the outcomes of the git subprocess calls: exit status 0, a non-zero exit
\* status, or no git executable (subprocess.run raises FileNotFoundError)
GitOutcomes == {"ok", "nonzero", "missing"}

\* the record of a get_project_status call before it has computed anything
StatusCall(ds, fs, include_git, detected) ==
    [EmptyEnvelope EXCEPT
        !.op = "status",
        !.args = [NoArgs EXCEPT !.include_git = include_git],
        !.pre = [dirs |-> ds, files |-> fs],
        !.detected = detected]

\* get_project_status from the directory walk on: validation_result is the
\* envelope of validate_project({'root': ...})
StatusReport(env, ds, fs, include_git, git, project_type, validation_result) ==
    LET env1 == [env EXCEPT
                    !.project_type = project_type,
                    !.total_directories = Cardinality(WalkedDirs(ds)),
                    !.total_files = Cardinality(DOMAIN fs),
                    !.compliance_score = IF validation_result.success
                                         THEN validation_result.compliance_score ELSE 0]
    IN  IF include_git /\ <<".git">> \in ds
        THEN IF git = "missing" THEN Failure(env, "FileNotFoundError")
             ELSE [env1 EXCEPT !.success = TRUE,
                               !.message = "Status report generated",
                               !.git_info = IF git = "ok" THEN "commits" ELSE "zero"]
        ELSE [env1 EXCEPT !.success = TRUE,
                          !.message = "Status report generated"]

\* get_project_status once _detect_project_type has returned det (or raised)
StatusDetected(ds, fs, include_git, git, det) ==
    IF det.raised
    THEN Failure(StatusCall(ds, fs, include_git, "raised"), det.value)
    ELSE StatusReport(StatusCall(ds, fs, include_git, det.value), ds, fs, include_git, git,
                      FallbackType(det.value),
                      validate_project(ds, fs, FALSE, FALSE).envelope)

get_project_status(ds, fs, include_git, git) ==
    IF ~root_exists
    THEN Failure(StatusCall(ds, fs, include_git, "not-run"), "ValidationError")
    ELSE StatusDetected(ds, fs, include_git, git, detect_project_type(get_project_config, ds))

----------------------------------------------------------------------------
(* create_project *)

\* The characters project names are made of here: a lower-case letter, a
\* digit, the hyphen, a character of no class of the pattern, and a newline.
NameChars == {"a", "1", "-", "A", "\n"}

IsLowerOrDigit(c) == c \in {"a", "1"}

\* re.fullmatch of [a-z][a-z0-9-]*[a-z0-9] on name
MatchesWholly(name) ==
    /\ Len(name) >= 2
    /\ name[1] = "a"
    /\ \A i \in 2..(Len(name) - 1) : IsLowerOrDigit(name[i]) \/ name[i] = "-"
    /\ IsLowerOrDigit(name[Len(name)])

\* validate_project_name: re.match of ^[a-z][a-z0-9-]*[a-z0-9]$ on a
\* non-empty name; `$` matches at the end of the string and also just before
\* a newline that ends it
validate_project_name(name) ==
    /\ name # <<>>
    /\ \/ MatchesWholly(name)
       \/ name[Len(name)] = "\n" /\ MatchesWholly(SubSeq(name, 1, Len(name) - 1))

\* config['templates']['default_author'], read when the payload names no
\* author: the built-in configuration has the section, the external
\* documents above have none
HasTemplates(config) == config = DefaultConfig

\* the outcomes of the three git subprocess calls of create_project: all
\* exit with status 0; `git init` exits non-zero; `git init` succeeds and
\* `git add` or `git commit` exits non-zero; or there is no git executable
\* (subprocess.run raises FileNotFoundError)
CreateGitOutcomes == {"ok", "init-fails", "commit-fails", "missing"}

\* the record of a create_project call before it has computed anything
CreateCall(ds, fs, project_name, project_type, force, git_init) ==
    [EmptyEnvelope EXCEPT
        !.op = "create",
        !.args = [NoArgs EXCEPT !.project_name = project_name,
                                !.project_type = project_type,
                                !.force = force,
                                !.git_init = git_init],
        !.pre = [dirs |-> ds, files |-> fs],
        !.root_existed = root_exists]

\* what a create_project call that raised before it created anything returns
CreateRefused(env, ds, fs, e) ==
    [envelope |-> Failure(env, e), dirs |-> ds, files |-> fs, root |-> env.root_existed]

\* `if git_init:` and the return: a CalledProcessError is passed over, any
\* other exception reaches the except clause of create_project
CreateGit(env, ds, fs, git_init, git) ==
    IF git_init /\ git = "missing"
    THEN [envelope |-> Failure(env, "FileNotFoundError"), dirs |-> ds, files |-> fs, root |-> TRUE]
    ELSE [envelope |-> [env EXCEPT !.success = TRUE,
                                   !.message = "Project created successfully",
                                   !.git_initialized = git_init /\ git = "ok"],
          dirs |-> IF git_init /\ git \in {"ok", "commit-fails"}
                   THEN ds \cup {<<".git">>} ELSE ds,
          files |-> fs,
          root |-> TRUE]

\* the paths the two mkdir loops of create_project go through
StructureDirs(project_type_config) ==
    project_type_config.required_dirs \o project_type_config.optional_dirs

\* create_project from `project_path.mkdir` on: the root, the required and
\* the optional directories are made with mkdir(parents=True, exist_ok=True)
\* and the template files generated with the defaults of
\* _generate_template_files (update_existing=False, missing_only=False)
CreateTree(env, ds, project_type, project_type_config, generated, git_init, git) ==
    CreateGit([env EXCEPT !.project_type = project_type,
                          !.created_directories = <<<<>>>> \o StructureDirs(project_type_config),
                          !.created_files = generated.created_files],
              MkdirAll(ds, StructureDirs(project_type_config)),
              generated.files, git_init, git)

\* create_project(payload) on the project path root/project_name, whose
\* tree is (ds, fs) when it exists; project_name is <<>> and project_type
\* NoneValue when the payload lacks them; git is the outcome of the git
\* calls.  Returns the envelope, the tree and whether the path exists.
create_project(ds, fs, project_name, project_type, force, git_init, git) ==
    IF project_name = <<>> \/ ~validate_project_name(project_name)
            \/ project_type = NoneValue \/ ~HasType(get_project_config, project_type)
    THEN CreateRefused(CreateCall(ds, fs, project_name, project_type, force, git_init),
                       ds, fs, "CreationError")
    ELSE IF ~HasTemplates(get_project_config)
    THEN CreateRefused(CreateCall(ds, fs, project_name, project_type, force, git_init),
                       ds, fs, "KeyError")
    ELSE IF root_exists /\ ~force
    THEN CreateRefused(CreateCall(ds, fs, project_name, project_type, force, git_init),
                       ds, fs, "CreationError")
    ELSE CreateTree(CreateCall(ds, fs, project_name, project_type, force, git_init),
                    ds, project_type, TypeConfig(get_project_config, project_type),
                    generate_template_files(MkdirAll(ds, StructureDirs(TypeConfig(get_project_config, project_type))),
                                            fs, TemplateContent(project_type, "create"),
                                            FALSE, FALSE),
                    git_init, git)

----------------------------------------------------------------------------
(* The restructuring script: ProjectRestructurer (src/test-restructure.py) *)

\* the structure _load_target_structure falls back to when the templates
\* directory holds no structure.yml for the project type
FallbackStructure ==
    [required_directories |-> << <<"claude-code">>, <<"data">>, <<"codes">>, <<"paper">>, <<"pre">> >>,
     optional_directories |-> <<>>,
     special_files |-> <<>>,
     required_files |-> <<"README.md", ".gitignore", "project.yml", ".project-config.json">>]

\* structure.yml documents the templates directory may hold: yaml.safe_load
\* returns the document as it is
StructureDocs ==
    [nested |->
        [required_directories |-> << <<"data", "raw">>, <<"codes", "scripts">> >>,
         optional_directories |-> << <<"reports">> >>,
         special_files |-> << <<"data", "raw", ".gitkeep">> >>,
         required_files |-> <<"README.md">>]]

\* what the template path of a call holds: no file ("fallback") or a document
Structures == {"fallback"} \cup DOMAIN StructureDocs

load_target_structure(structure) ==
    IF structure = "fallback" THEN FallbackStructure ELSE StructureDocs[structure]

\* a .project-config.json of the user's: a JSON object with a "project"
\* object naming a type, a JSON object without one, or text that is no JSON
UserConfigContents ==
    { [origin |-> "user", project_type |-> "paper-writing", vars |-> "json-project"],
      [origin |-> "user", project_type |-> "", vars |-> "json-object"],
      [origin |-> "user", project_type |-> "", vars |-> "not-json"] }

\* what json.load makes of a .project-config.json: the file the handlers'
\* template writes is an object with no "project" key, the file
\* _update_project_config writes has one
JsonKind(content) ==
    IF content.origin = "template" THEN "json-object"
    ELSE IF content.vars \in {"json-project", "json-object"} THEN content.vars
    ELSE "not-json"

\* the new configuration _update_project_config writes
RestructurerConfig(project_type) ==
    [origin |-> "restructurer", project_type |-> project_type, vars |-> "json-project"]

\* names that start with a dot
DotNames == {".git", ".claude", ".claude-plugin", ".gitignore", ".project-config.json", ".gitkeep"}

\* the directory names the heuristic looks for, by the type it answers
HeuristicTable ==
    << [names |-> {"raw", "processed", "etl", "analysis"}, type |-> "data-analysis"],
       [names |-> {"chapters", "sections", "figures", "tables"}, type |-> "paper-writing"],
       [names |-> {"literature", "scripts", "outlines"}, type |-> "research-project"] >>

\* the if/elif chain over the names of the top-level directories
RECURSIVE HeuristicFrom(_, _)
HeuristicFrom(i, names) ==
    IF i > Len(HeuristicTable) THEN "general"
    ELSE IF HeuristicTable[i].names \cap names # {} THEN HeuristicTable[i].type
    ELSE HeuristicFrom(i + 1, names)

\* ProjectRestructurer._detect_project_type: the type the project's own
\* .project-config.json names, else the heuristic; json.load may raise
restructurer_detect_project_type(ds, fs) ==
    IF ~root_exists THEN [raised |-> TRUE, value |-> "FileNotFoundError"]
    ELSE IF <<".project-config.json">> \in DOMAIN fs
    THEN IF JsonKind(fs[<<".project-config.json">>]) = "not-json"
         THEN [raised |-> TRUE, value |-> "JSONDecodeError"]
         ELSE [raised |-> FALSE,
               value |-> IF JsonKind(fs[<<".project-config.json">>]) = "json-project"
                         THEN fs[<<".project-config.json">>].project_type ELSE "general"]
    ELSE [raised |-> FALSE, value |-> HeuristicFrom(1, {q[1] : q \in {r \in ds : Len(r) = 1}})]

\* The top-level directory names without a leading dot that a tree the
\* script works on may hold, in the order project_path.iterdir() lists them.
RestructurerListingOrder ==
    <<"claude-code", "codes", "data", "paper", "pre", "reports", "raw", "__pycache__">> \o JunkNames

\* ProjectRestructurer._analyze_existing_structure: the top-level entries
\* whose name does not start with a dot
analyzed_directories(ds) ==
    SelectSeq(PathsOf(RestructurerListingOrder), LAMBDA d : d \in ds)

analyzed_files(fs) == SelectSeq(existing_files_of(fs), LAMBDA f : f \notin DotNames)

\* file_name.endswith(...) for the file names of the model
ExtensionOf(file_name) ==
    CASE file_name = "analysis.py" -> ".py"
      [] file_name \in {"README.md", "draft.md"} -> ".md"
      [] file_name = "table.csv" -> ".csv"
      [] file_name = ".project-config.json" -> ".json"
      [] OTHER -> ""

\* the required files the move loop skips
SkippedFileNames == <<"README.md", ".gitignore", "project.yml", ".project-config.json">>

\* the if/elif chain of the move loop: the directory a file name is routed
\* to, <<>> for `continue`
target_dir_of(file_name) ==
    IF ExtensionOf(file_name) \in {".py", ".R"} THEN <<"codes">>
    ELSE IF ExtensionOf(file_name) = ".md" THEN <<"paper">>
    ELSE IF ExtensionOf(file_name) \in {".csv", ".xlsx", ".json"} THEN <<"data">>
    ELSE <<>>

\* shutil.move(file_path, target_path)
MoveFile(fs, source, dest) ==
    [q \in (DOMAIN fs \ {source}) \cup {dest} |-> IF q = dest THEN fs[source] ELSE fs[q]]

\* target_path.exists()
DestinationExists(ds, fs, target_path) == target_path \in DOMAIN fs \cup ds

\* The loop over analysis["files"], from entry i on; st holds the tree and
\* the lists created_dirs and moved_files.
RECURSIVE MoveLoop(_, _, _)
MoveLoop(names, i, st) ==
    IF i > Len(names) THEN st
    ELSE IF Contains(SkippedFileNames, names[i]) \/ target_dir_of(names[i]) = <<>>
    THEN MoveLoop(names, i + 1, st)
    ELSE MoveLoop(names, i + 1,
            [st EXCEPT
                !.dirs = @ \cup {target_dir_of(names[i])},
                !.created_dirs = IF target_dir_of(names[i]) \in st.dirs THEN @
                                 ELSE Append(@, target_dir_of(names[i])),
                !.files = IF DestinationExists(st.dirs, st.files, target_dir_of(names[i]) \o <<names[i]>>)
                          THEN @
                          ELSE MoveFile(@, <<names[i]>>, target_dir_of(names[i]) \o <<names[i]>>),
                !.moved_files = IF DestinationExists(st.dirs, st.files, target_dir_of(names[i]) \o <<names[i]>>)
                                THEN @
                                ELSE Append(@, [source |-> <<names[i]>>,
                                                dest |-> target_dir_of(names[i]) \o <<names[i]>>])])

\* The loop over special_files, from entry i on: a missing file is touched,
\* its parent directories made, and reported in moved_files.
RECURSIVE SpecialLoop(_, _, _)
SpecialLoop(special_files, i, st) ==
    IF i > Len(special_files) THEN st
    ELSE IF special_files[i] \in DOMAIN st.files \cup st.dirs
    THEN SpecialLoop(special_files, i + 1, st)
    ELSE SpecialLoop(special_files, i + 1,
            [st EXCEPT
                !.dirs = @ \cup Ancestors(SubSeq(special_files[i], 1, Len(special_files[i]) - 1)),
                !.files = [q \in DOMAIN @ \cup {special_files[i]} |->
                              IF q = special_files[i]
                              THEN [origin |-> "touch", project_type |-> "", vars |-> ""]
                              ELSE @[q]],
                !.moved_files = Append(@, [source |-> <<>>, dest |-> special_files[i]])])

\* The loop over existing_dirs - all_standard_dirs, from entry i on.  The
\* order in which a Python set is iterated is not fixed; the rmtree calls of
\* different top-level directories commute and removed_dirs is given here
\* in listing order.
RECURSIVE RestructurerRemoveLoop(_, _, _, _)
RestructurerRemoveLoop(existing_dirs, i, all_standard_dirs, st) ==
    IF i > Len(existing_dirs) THEN st
    ELSE IF existing_dirs[i] \in all_standard_dirs \/ existing_dirs[i] \notin st.dirs
    THEN RestructurerRemoveLoop(existing_dirs, i + 1, all_standard_dirs, st)
    ELSE RestructurerRemoveLoop(existing_dirs, i + 1, all_standard_dirs,
            [st EXCEPT !.dirs = Rmtree(@, existing_dirs[i]),
                       !.files = RmtreeFiles(@, existing_dirs[i]),
                       !.removed_dirs = Append(@, existing_dirs[i])])

\* the two loops creating the missing required and optional directories
CreatedStructure(target_structure, required) ==
    CreateLoop(target_structure.optional_directories, 1, required.dirs, required.created_dirs)

\* ProjectRestructurer._perform_restructure on the tree (ds, fs): the tree
\* it leaves and its lists moved_files, created_dirs, removed_dirs
PerformRemove(remove_nonstandard, target_structure, existing_dirs, moved) ==
    IF remove_nonstandard
    THEN RestructurerRemoveLoop(existing_dirs, 1,
                                SeqToSet(target_structure.required_directories \o
                                         target_structure.optional_directories), moved)
    ELSE moved

PerformMoves(target_structure, existing_files, fs, created) ==
    MoveLoop(existing_files, 1,
             SpecialLoop(target_structure.special_files, 1,
                         [dirs |-> created.dirs, files |-> fs,
                          created_dirs |-> created.created_dirs,
                          moved_files |-> <<>>, removed_dirs |-> <<>>]))

perform_restructure(ds, fs, target_structure, existing_dirs, existing_files, remove_nonstandard) ==
    PerformRemove(remove_nonstandard, target_structure, existing_dirs,
        PerformMoves(target_structure, existing_files, fs,
            CreatedStructure(target_structure,
                CreateLoop(target_structure.required_directories, 1, ds, <<>>))))

\* ProjectRestructurer._update_project_config: a new configuration is
\* written, or the existing one loaded, config["project"]["type"] set and
\* the file written back; json.load and the subscript may raise
update_project_config(fs, project_type) ==
    IF <<".project-config.json">> \notin DOMAIN fs
    THEN [raised |-> "",
          files |-> [q \in DOMAIN fs \cup {<<".project-config.json">>} |->
                        IF q = <<".project-config.json">>
                        THEN RestructurerConfig(project_type) ELSE fs[q]]]
    ELSE IF JsonKind(fs[<<".project-config.json">>]) = "not-json"
    THEN [raised |-> "JSONDecodeError", files |-> fs]
    ELSE IF JsonKind(fs[<<".project-config.json">>]) = "json-object"
    THEN [raised |-> "KeyError", files |-> fs]
    ELSE [raised |-> "",
          files |-> [fs EXCEPT ![<<".project-config.json">>] =
                        [@ EXCEPT !.project_type = project_type, !.vars = "json-project"]]]

\* the record of a ProjectRestructurer.restructure call before it has
\* computed anything
RestructurerCall(ds, fs, do_backup, remove_nonstandard, target_type, structure, backup_taken, detected) ==
    [EmptyEnvelope EXCEPT
        !.op = "restructurer",
        !.args = [NoArgs EXCEPT !.backup = do_backup,
                                !.remove_nonstandard = remove_nonstandard,
                                !.target_type = target_type,
                                !.structure = structure],
        !.pre = [dirs |-> ds, files |-> fs],
        !.backup_taken = backup_taken,
        !.detected = detected]

\* the except clause of restructure: success False, a message and the key
\* 'error'; the envelope has no 'errors' list
RestructurerFailure(env, e) ==
    [EmptyEnvelope EXCEPT !.op = env.op, !.args = env.args, !.pre = env.pre,
                          !.detected = env.detected, !.backup_taken = env.backup_taken,
                          !.message = "Restructure failed", !.error = e]

\* the end of restructure: the configuration is updated and the envelope
\* returned; an exception of the update leaves the restructured tree
RestructurerReturn(env, project_type, performed, updated) ==
    IF updated.raised # ""
    THEN [envelope |-> RestructurerFailure(env, updated.raised),
          dirs |-> performed.dirs, files |-> performed.files]
    ELSE [envelope |-> [env EXCEPT !.success = TRUE,
                                   !.message = "Project restructured successfully",
                                   !.project_type = project_type,
                                   !.moved_files = performed.moved_files,
                                   !.created_directories = performed.created_dirs,
                                   !.removed_directories = performed.removed_dirs],
          dirs |-> performed.dirs, files |-> updated.files]

RestructurerPerformed(env, project_type, performed) ==
    RestructurerReturn(env, project_type, performed,
                       update_project_config(performed.files, project_type))

\* restructure once the project type is given or detected
RestructurerDetected(ds, fs, do_backup, remove_nonstandard, target_type, structure, copy_ok, det) ==
    IF det.raised
    THEN Unchanged(RestructurerFailure(
                       RestructurerCall(ds, fs, do_backup, remove_nonstandard, target_type,
                                        structure, FALSE, "raised"), det.value), ds, fs)
    ELSE IF BackupFails(do_backup, copy_ok) \/ ~root_exists
    THEN Unchanged(RestructurerFailure(
                       RestructurerCall(ds, fs, do_backup, remove_nonstandard, target_type,
                                        structure, FALSE, det.value),
                       IF root_exists THEN "OSError" ELSE "FileNotFoundError"), ds, fs)
    ELSE RestructurerPerformed(
             RestructurerCall(ds, fs, do_backup, remove_nonstandard, target_type,
                              structure, do_backup /\ copy_ok, det.value),
             IF target_type = NoneValue THEN det.value ELSE target_type,
             perform_restructure(ds, fs, load_target_structure(structure),
                                 analyzed_directories(ds),
                                 analyzed_files(fs), remove_nonstandard))

\* ProjectRestructurer(project_path).restructure(backup, remove_nonstandard,
\* target_type=target_type) on the tree (ds, fs); structure is what the
\* template path of the project type holds and copy_ok whether
\* shutil.copytree succeeds.  Returns the envelope and the tree; the backup
\* copy is envelope.pre when envelope.backup_taken.
restructurer_restructure(ds, fs, do_backup, remove_nonstandard, target_type, structure, copy_ok) ==
    RestructurerDetected(ds, fs, do_backup, remove_nonstandard, target_type, structure, copy_ok,
                         IF target_type = NoneValue
                         THEN restructurer_detect_project_type(ds, fs)
                         ELSE [raised |-> FALSE, value |-> "not-run"])

----------------------------------------------------------------------------
(* The validation script: ProjectValidator (src/test-validator.py) *)

\* the record of a ProjectValidator(project_path).validate() call before it
\* has computed anything
ValidatorCall(ds, fs, structure) ==
    [EmptyEnvelope EXCEPT
        !.op = "validator",
        !.args = [NoArgs EXCEPT !.structure = structure],
        !.pre = [dirs |-> ds, files |-> fs]]

\* the project types _load_templates looks a structure.yml up for
KnownTemplateTypes == {"research-project", "data-analysis", "paper-writing", "general"}

\* self.project_config.get("project", {}).get("type", "general")
validator_project_type(fs) ==
    IF <<".project-config.json">> \in DOMAIN fs
          /\ JsonKind(fs[<<".project-config.json">>]) = "json-project"
    THEN fs[<<".project-config.json">>].project_type
    ELSE "general"

\* the entries rglob("*") yields whose own name does not start with a dot
\* and whose path is not a required one (a sorted list in the code)
extra_items_of(ds, fs, required_dirs, required_files) ==
    {q \in ds : q[Len(q)] \notin DotNames /\ ~Contains(required_dirs, q)}
        \cup {q \in DOMAIN fs : q[Len(q)] \notin DotNames /\ ~Contains(PathsOf(required_files), q)}

\* int((present_items / total_items) * 100) if total_items > 0 else 0
validator_score(present_items, total_items) ==
    IF total_items > 0 THEN (present_items * 100) \div total_items ELSE 0

validator_issues(missing_dirs, missing_files, extra_items) ==
    (IF missing_dirs # <<>> THEN <<"missing_dirs">> ELSE <<>>) \o
    (IF missing_files # <<>> THEN <<"missing_files">> ELSE <<>>) \o
    (IF extra_items # {} THEN <<"extra_items">> ELSE <<>>)

\* validate() with a template: a required directory or file is present when
\* its full path exists in the tree
ValidatorReport(env, ds, fs, project_type, required_dirs, required_files) ==
    [env EXCEPT
        !.success = TRUE,
        !.project_type = project_type,
        !.compliance_score =
            validator_score(Len(SelectSeq(required_dirs, LAMBDA d : d \in ds))
                                + Len(SelectSeq(required_files, LAMBDA f : <<f>> \in DOMAIN fs)),
                            Len(required_dirs) + Len(required_files)),
        !.required_dirs_present = SelectSeq(required_dirs, LAMBDA d : d \in ds),
        !.required_files_present = SelectSeq(required_files, LAMBDA f : <<f>> \in DOMAIN fs),
        !.missing_dirs = SelectSeq(required_dirs, LAMBDA d : d \notin ds),
        !.missing_files = SelectSeq(required_files, LAMBDA f : <<f>> \notin DOMAIN fs),
        !.extra_items = extra_items_of(ds, fs, required_dirs, required_files),
        !.issues_found =
            validator_issues(SelectSeq(required_dirs, LAMBDA d : d \notin ds),
                             SelectSeq(required_files, LAMBDA f : <<f>> \notin DOMAIN fs),
                             extra_items_of(ds, fs, required_dirs, required_files))]

\* validate(): without a template for the project type the envelope is
\* {"success": False, "error": ..., "compliance_score": 0}
ValidatorValidate(env, ds, fs, structure, project_type) ==
    IF structure = "fallback" \/ project_type \notin KnownTemplateTypes
    THEN [env EXCEPT !.error = "Unknown project type", !.compliance_score = 0]
    ELSE ValidatorReport(env, ds, fs, project_type,
                         StructureDocs[structure].required_directories,
                         StructureDocs[structure].required_files)

\* ProjectValidator(project_path).validate() on the tree (ds, fs); structure
\* is what the template path of the project type holds.  The constructor
\* loads .project-config.json outside any try: an exception of json.load
\* leaves the call.
project_validator(ds, fs, structure) ==
    IF <<".project-config.json">> \in DOMAIN fs
          /\ JsonKind(fs[<<".project-config.json">>]) = "not-json"
    THEN [ValidatorCall(ds, fs, structure) EXCEPT !.raised = "JSONDecodeError"]
    ELSE ValidatorValidate(ValidatorCall(ds, fs, structure), ds, fs, structure,
                           validator_project_type(fs))

----------------------------------------------------------------------------
(* The state machine *)

\* the subsets of S with at most k elements
RECURSIVE SubsetsUpTo(_, _)
SubsetsUpTo(S, k) ==
    IF k = 0 THEN {{}}
    ELSE LET smaller == SubsetsUpTo(S, k - 1)
         IN  smaller \cup {s \cup {x} : s \in smaller, x \in S}

\* no concurrent calls are under way
NoCalls == [start |-> [dirs |-> {}, files |-> <<>>], overlapped |-> FALSE, first |-> 0, call |-> <<>>]

\* A starting state: a configuration, and a project directory that is
\* missing or holds at most max_entries top-level directories and files, the
\* files with content of the user's.
InitTree(max_entries) ==
    /\ config_file \in ConfigFiles
    /\ root_exists \in BOOLEAN
    /\ \E ds \in SubsetsUpTo(SeqToSet(SchemaListing(get_project_config)), max_entries),
          fs \in SubsetsUpTo(SeqToSet(FileListingOrder), max_entries) :
          /\ Cardinality(ds) + Cardinality(fs) <= max_entries
          /\ root_exists \/ (ds = {} /\ fs = {})
          /\ dirs = {<<n>> : n \in ds}
          /\ files = [q \in {<<n>> : n \in fs} |-> UserContent]
    /\ result = EmptyEnvelope
    /\ calls = NoCalls

Init == InitTree(MaxInitEntries)

InitAnalysis == InitTree(MaxAnalysisEntries)

\* no call is in progress and the last envelope has been taken by the caller
Idle == result.op = "none"

CallValidateProject ==
    \E fix_issues \in BOOLEAN, strict_mode \in BOOLEAN :
        LET out == validate_project(dirs, files, fix_issues, strict_mode)
        IN  /\ Idle
            /\ result' = out.envelope
            /\ dirs' = out.dirs
            /\ files' = out.files
            /\ UNCHANGED <<config_file, root_exists, calls>>

TargetTypes == TypeNames(get_project_config) \cup {NoneValue, "no-such-type"}

CallRestructureProject ==
    \E do_backup \in BOOLEAN, remove_nonstandard \in BOOLEAN, target_type \in TargetTypes :
      \E copy_ok \in IF do_backup THEN BOOLEAN ELSE {TRUE} :
        LET out == restructure_project(dirs, files, do_backup, remove_nonstandard,
                                       target_type, copy_ok)
        IN  /\ Idle
            /\ result' = out.envelope
            /\ dirs' = out.dirs
            /\ files' = out.files
            /\ UNCHANGED <<config_file, root_exists, calls>>

CallGetProjectStatus ==
    \E include_git \in BOOLEAN, git \in GitOutcomes :
        /\ Idle
        /\ result' = get_project_status(dirs, files, include_git, git)
        /\ UNCHANGED <<config_file, root_exists, dirs, files, calls>>

\* the project names of the payloads
ProjectNames == UNION {[1..n -> NameChars] : n \in 0..MaxNameLen}

\* the project types of the payloads
CreateTypes == TypeNames(get_project_config) \cup {NoneValue, "no-such-type"}

CallCreateProject ==
    /\ Idle
    /\ \E project_name \in ProjectNames, project_type \in CreateTypes,
          force \in BOOLEAN, git_init \in BOOLEAN :
         \E git \in IF git_init THEN CreateGitOutcomes ELSE {"ok"} :
           LET out == create_project(dirs, files, project_name, project_type, force, git_init, git)
           IN  /\ result' = out.envelope
               /\ dirs' = out.dirs
               /\ files' = out.files
               /\ root_exists' = out.root
               /\ UNCHANGED <<config_file, calls>>

\* the caller takes the returned envelope; the next call can start
TakeResult ==
    /\ ~Idle
    /\ result' = EmptyEnvelope
    /\ UNCHANGED <<config_file, root_exists, dirs, files, calls>>

Next ==
    \/ CallValidateProject
    \/ CallRestructureProject
    \/ CallGetProjectStatus
    \/ TakeResult

Spec == Init /\ [][Next]_vars

\* validate_project and get_project_status alone, on larger starting trees
NextAnalysis ==
    \/ CallValidateProject
    \/ CallGetProjectStatus
    \/ TakeResult

SpecAnalysis == InitAnalysis /\ [][NextAnalysis]_vars

\* the top-level directory names of the trees the scripts start from
ScriptDirNames == {"codes", "data", ".git", "__pycache__", "raw"} \cup SeqToSet(JunkNames)

\* the top-level file names of the trees the scripts start from
ScriptFileNames == {"README.md", ".project-config.json", "notes.txt"} \cup SeqToSet(RoutedFileNames)

\* A starting tree of the scripts: a project directory that is missing or
\* holds at most max_entries top-level entries; codes/ may hold a file
\* analysis.py, and .project-config.json is one of the user's configurations.
InitScriptTree(max_entries) ==
    /\ root_exists \in BOOLEAN
    /\ \E ds \in SubsetsUpTo(ScriptDirNames, max_entries),
          fs \in SubsetsUpTo(ScriptFileNames, max_entries),
          filled \in BOOLEAN, user_config \in UserConfigContents :
          /\ Cardinality(ds) + Cardinality(fs) <= max_entries
          /\ root_exists \/ (ds = {} /\ fs = {})
          /\ filled => "codes" \in ds
          /\ dirs = {<<n>> : n \in ds}
          /\ files = [q \in {<<n>> : n \in fs}
                              \cup (IF filled THEN {<<"codes", "analysis.py">>} ELSE {}) |->
                         IF q = <<".project-config.json">> THEN user_config
                         ELSE IF Len(q) > 1 THEN OtherUserContent ELSE UserContent]
    /\ result = EmptyEnvelope
    /\ calls = NoCalls

RestructurerTargetTypes == {NoneValue, "general"}

CallRestructurer ==
    \E do_backup \in BOOLEAN, remove_nonstandard \in BOOLEAN,
       target_type \in RestructurerTargetTypes, structure \in Structures :
      \E copy_ok \in IF do_backup THEN BOOLEAN ELSE {TRUE} :
        LET out == restructurer_restructure(dirs, files, do_backup, remove_nonstandard,
                                            target_type, structure, copy_ok)
        IN  /\ Idle
            /\ result' = out.envelope
            /\ dirs' = out.dirs
            /\ files' = out.files
            /\ UNCHANGED <<config_file, root_exists, calls>>

CallValidator ==
    \E structure \in Structures :
        /\ Idle
        /\ result' = project_validator(dirs, files, structure)
        /\ UNCHANGED <<config_file, root_exists, dirs, files, calls>>

InitScripts == config_file = "absent" /\ InitScriptTree(MaxScriptEntries)

\* the scripts, one call after the other
NextScripts ==
    \/ CallRestructurer
    \/ CallValidator
    \/ TakeResult

SpecScripts == InitScripts /\ [][NextScripts]_vars

InitRestructure == config_file \in {"absent", "flat"} /\ InitScriptTree(MaxRestructureEntries)

\* one call of either restructuring operation
NextRestructure ==
    \/ CallRestructureProject
    \/ CallRestructurer

\* the handler and the script, each run once on every starting tree
SpecRestructure == InitRestructure /\ [][NextRestructure]_vars

\* a project directory that holds the directories of ClashNames besides
\* the entries of a starting tree
InitClashTree(max_entries) ==
    /\ config_file \in ConfigFiles
    /\ root_exists = TRUE
    /\ \E ds \in SubsetsUpTo(SeqToSet(SchemaListing(get_project_config)), max_entries),
          fs \in SubsetsUpTo(SeqToSet(FileListingOrder) \ SeqToSet(ClashNames), max_entries) :
          /\ Cardinality(ds) + Cardinality(fs) <= max_entries
          /\ dirs = {<<n>> : n \in ds \cup SeqToSet(ClashNames)}
          /\ files = [q \in {<<n>> : n \in fs} |-> UserContent]
    /\ result = EmptyEnvelope
    /\ calls = NoCalls

InitCreate == InitTree(MaxCreateEntries) \/ InitClashTree(MaxCreateEntries)

\* one call of create_project, of validate_project or of get_project_status
NextCreate ==
    \/ CallCreateProject
    \/ CallValidateProject
    \/ CallGetProjectStatus

\* create_project, validate_project and get_project_status, each run once on
\* every starting project path
SpecCreate == InitCreate /\ [][NextCreate]_vars

----------------------------------------------------------------------------
(* Two restructure_project calls on the same project path at the same time *)

\* The payloads of the concurrent calls: backup=False and a target type.
RaceTypes == {"general", "research-project"}

\* a call that has not started: its payload
RaceCall(remove_nonstandard, target_type) ==
    [pc |-> "ready", remove_nonstandard |-> remove_nonstandard, target_type |-> target_type,
     existing_dirs |-> <<>>, i |-> 1]

\* the project directory holds a starting tree and two calls are about to be made
InitRace ==
    /\ config_file = "absent"
    /\ root_exists = TRUE
    /\ \E ds \in SubsetsUpTo(SeqToSet(SchemaListing(get_project_config)), MaxRaceEntries),
          fs \in SubsetsUpTo(SeqToSet(FileListingOrder), MaxRaceEntries) :
          /\ Cardinality(ds) + Cardinality(fs) <= MaxRaceEntries
          /\ dirs = {<<n>> : n \in ds}
          /\ files = [q \in {<<n>> : n \in fs} |-> UserContent]
    /\ result = EmptyEnvelope
    /\ \E rn1 \in BOOLEAN, rn2 \in BOOLEAN, t1 \in RaceTypes, t2 \in RaceTypes :
          calls = [start |-> [dirs |-> dirs, files |-> files], overlapped |-> FALSE, first |-> 0,
                   call |-> <<RaceCall(rn1, t1), RaceCall(rn2, t2)>>]

\* the call is between its listing of the directory and its return
InProgress(call) == call.pc \in {"listed", "created", "removed"}

\* the call has returned an envelope: success or failure
Returned(call) == call.pc \in {"done", "failed"}

\* call c moves on to the state next
Proceed(c, next) ==
    [calls EXCEPT !.call[c] = next,
                  !.overlapped = @ \/ InProgress(calls.call[3 - c]),
                  !.first = IF @ = 0 THEN c ELSE @]

\* existing_dirs = [d for d in project_path.iterdir() if d.is_dir()]
RaceList(c) ==
    /\ calls.call # <<>>
    /\ calls.call[c].pc = "ready"
    /\ calls' = Proceed(c, [calls.call[c] EXCEPT
                               !.pc = "listed",
                               !.existing_dirs = existing_dirs_of(get_project_config, dirs)])
    /\ UNCHANGED <<config_file, root_exists, dirs, files, result>>

\* the loop that creates the missing required directories
RaceCreate(c) ==
    /\ calls.call # <<>>
    /\ calls.call[c].pc = "listed"
    /\ dirs' = CreateLoop(TypeConfig(get_project_config, calls.call[c].target_type).required_dirs,
                          1, dirs, <<>>).dirs
    /\ calls' = Proceed(c, [calls.call[c] EXCEPT
                               !.pc = IF calls.call[c].remove_nonstandard
                                      THEN "created" ELSE "removed"])
    /\ UNCHANGED <<config_file, root_exists, files, result>>

RmtreeAlwaysRaises(ds, existing_dir) == TRUE

\* shutil.rmtree(existing_dir) raises FileNotFoundError when the directory
\* is not there
RmtreeRaises(ds, existing_dir) == existing_dir \notin ds

\* one round of the loop over the directories listed at the start
RaceRemove(c) ==
    /\ calls.call # <<>>
    /\ calls.call[c].pc = "created"
    /\ LET call == calls.call[c]
           project_type_config == TypeConfig(get_project_config, call.target_type)
           all_standard_dirs == SeqToSet(project_type_config.required_dirs \o
                                         project_type_config.optional_dirs)
       IN  IF call.i > Len(call.existing_dirs)
           THEN /\ calls' = Proceed(c, [call EXCEPT !.pc = "removed"])
                /\ UNCHANGED <<dirs, files>>
           ELSE IF ~IsNonstandard(call.existing_dirs[call.i], all_standard_dirs)
           THEN /\ calls' = Proceed(c, [call EXCEPT !.i = @ + 1])
                /\ UNCHANGED <<dirs, files>>
           ELSE IF RmtreeRaises(dirs, call.existing_dirs[call.i])
           THEN /\ calls' = Proceed(c, [call EXCEPT !.pc = "failed"])
                /\ UNCHANGED <<dirs, files>>
           ELSE /\ calls' = Proceed(c, [call EXCEPT !.i = @ + 1])
                /\ dirs' = Rmtree(dirs, call.existing_dirs[call.i])
                /\ files' = RmtreeFiles(files, call.existing_dirs[call.i])
    /\ UNCHANGED <<config_file, root_exists, result>>

\* _generate_template_files(..., update_existing=True) and the return
RaceTemplates(c) ==
    /\ calls.call # <<>>
    /\ calls.call[c].pc = "removed"
    /\ LET generated == generate_template_files(dirs, files,
                                                TemplateContent(calls.call[c].target_type,
                                                                "restructure"),
                                                TRUE, FALSE)
       IN  /\ files' = generated.files
           /\ calls' = Proceed(c, [calls.call[c] EXCEPT
                                      !.pc = IF generated.raised THEN "failed" ELSE "done"])
    /\ UNCHANGED <<config_file, root_exists, dirs, result>>

\* a step of either call
NextRace ==
    \/ \E c \in {1, 2} : RaceList(c)
    \/ \E c \in {1, 2} : RaceCreate(c)
    \/ \E c \in {1, 2} : RaceRemove(c)
    \/ \E c \in {1, 2} : RaceTemplates(c)

\* two restructure_project calls on one project path, their steps interleaved
SpecRace == InitRace /\ [][NextRace]_vars

----------------------------------------------------------------------------
(* Properties *)

\* the top-level directories of a tree
TopLevel(ds) == {q \in ds : Len(q) = 1}

\* the tree the last call started from
PreDirs == result.pre.dirs

PreFiles == DOMAIN result.pre.files

ValidateReturned == result.op = "validate" /\ result.success

SumOfWeights(w) ==
    w.directories + w.required_files + w.content_quality + w.git_integration

\* C1: the built-in scoring weights sum to 100, and the compliance_score of
\* every successful validate_project is an integer from 0 to 100.
C1_ScoreWithinRange ==
    /\ config_file = "absent" => SumOfWeights(get_project_config.scoring_weights) = 100
    /\ ValidateReturned => result.compliance_score \in 0..100

\* C1 witness: with the built-in schemas a validation returned the top score,
\* and every weight took part in it.
C1_Witness ==
    /\ ValidateReturned
    /\ config_file = "absent"
    /\ result.compliance_score = 100
    /\ <<".git">> \in PreDirs

\* the schema validate_project scored the tree against
ScoredSchema == TypeConfig(get_project_config, result.project_type)

\* s = floor(num / den), for den > 0
IsFloorOf(s, num, den) == s * den <= num /\ num < (s + 1) * den

ClosureOf(paths) == UNION {Ancestors(paths[i]) : i \in DOMAIN paths}

\* the tree holds exactly the required directories and files of a schema, and .git
IsExactTreeOf(schema, ds, fnames) ==
    /\ ds = ClosureOf(schema.required_dirs) \cup {<<".git">>}
    /\ fnames = {<<schema.required_files[i]>> : i \in DOMAIN schema.required_files}

\* C3: a project directory containing exactly the required_dirs and
\* required_files of a schema plus a .git folder is validated with no missing
\* items and a score of 100 (stated here for the built-in schemas).
C3_ExactTreeScores100 ==
    (/\ result.op = "validate"
     /\ config_file = "absent"
     /\ \E i \in DOMAIN DefaultConfig.project_types :
            IsExactTreeOf(DefaultConfig.project_types[i], PreDirs, PreFiles))
    => /\ result.success
       /\ result.missing_dirs = <<>>
       /\ result.missing_files = <<>>
       /\ result.compliance_score = 100

\* the schema scoring uses once detection has returned
SchemaForScoring ==
    LET t == IF result.detected = NoneValue THEN "general" ELSE result.detected
    IN  TypeConfig(get_project_config, t)

DetectionReturned == result.detected \notin {"not-run", "raised"}

\* C4: when the schema used for scoring has an empty required_dirs or
\* required_files list, validation does not fail and still returns a score,
\* the empty list's component contributing 0.
C4_EmptyListContributesZero ==
    (/\ result.op = "validate"
     /\ DetectionReturned
     /\ HasType(get_project_config, "general")
     /\ \/ SchemaForScoring.required_dirs = <<>>
        \/ SchemaForScoring.required_files = <<>>)
    => /\ result.success
       /\ result.compliance_score \in 0..100

\* the match ratio of a schema is matches / len(required_dirs): Matches counts
\* its required_dirs found among the top-level directories of the tree
Matches(schema, ds) ==
    Cardinality({j \in DOMAIN schema.required_dirs : schema.required_dirs[j] \in TopLevel(ds)})

AllRatiosDefined(config) ==
    \A i \in DOMAIN config.project_types : config.project_types[i].required_dirs # <<>>

\* ratio of schema a > ratio of schema b
RatioGreater(a, b, ds) ==
    Matches(a, ds) * Len(b.required_dirs) > Matches(b, ds) * Len(a.required_dirs)

\* ratio of schema a > 0.3
RatioAboveThreshold(a, ds) == 10 * Matches(a, ds) > 3 * Len(a.required_dirs)

\* C5: type detection returns a type only if that type's match ratio is
\* strictly greater than 0.3, and returns None whenever the best ratio over
\* all schemas is at most 0.3 (every schema having a ratio).
C5_DetectionThreshold ==
    LET config == get_project_config
        types == config.project_types
    IN  (result.detected # "not-run" /\ AllRatiosDefined(config)) =>
            /\ DetectionReturned
            /\ result.detected # NoneValue =>
                   /\ HasType(config, result.detected)
                   /\ RatioAboveThreshold(TypeConfig(config, result.detected), PreDirs)
            /\ (\A i \in DOMAIN types : ~RatioAboveThreshold(types[i], PreDirs))
                   => result.detected = NoneValue

\* C5 witness: detection ran on a tree whose best ratio is exactly 0.3 (three
\* of the ten required directories of one schema, none of the other's) and
\* returned None.
C5_Witness ==
    /\ config_file = "wide"
    /\ result.op = "validate"
    /\ result.detected = NoneValue
    /\ Matches(TypeConfig(get_project_config, "survey"), PreDirs) = 3
    /\ Matches(TypeConfig(get_project_config, "general"), PreDirs) = 0

\* C6: when type detection returns a type, the ratio of that type is maximal
\* over the registry, and no schema earlier in registry order has the same ratio.
C6_BestRatioFirstWins ==
    LET config == get_project_config
        types == config.project_types
    IN  (DetectionReturned /\ result.detected # NoneValue) =>
            \E k \in DOMAIN types :
                /\ types[k].name = result.detected
                /\ \A i \in DOMAIN types : ~RatioGreater(types[i], types[k], PreDirs)
                /\ \A i \in 1..(k - 1) : RatioGreater(types[k], types[i], PreDirs)

\* C6 witness: two schemas tie at the maximal ratio 1/2 and the earlier one
\* is returned.
C6_Witness ==
    /\ config_file = "flat"
    /\ result.detected = "alpha"
    /\ Matches(TypeConfig(get_project_config, "alpha"), PreDirs) = 1
    /\ Matches(TypeConfig(get_project_config, "beta"), PreDirs) = 1
    /\ Matches(TypeConfig(get_project_config, "general"), PreDirs) = 1

\* C7: type detection yields a result, a type or None, for every tree and
\* every registry, a schema with an empty required_dirs list included: it
\* never fails.
C7_DetectionNeverFails == result.detected # "raised"

\* C8: in validate, status and restructure without target_type, whenever
\* type detection returns None the operation proceeds with the 'general'
\* schema: it does not fail on resolving the type, and the type it reports
\* is 'general'.
C8_NoneFallsBackToGeneral ==
    (result.op \in {"validate", "status", "restructure"} /\ result.detected = NoneValue)
    => /\ result.errors # <<"KeyError">>
       /\ result.success => result.project_type = "general"

\* C9: the registry get_project_config returns always has an entry named
\* 'general', with the built-in defaults and with every external document
\* that replaces them.
C9_RegistryHasGeneral == HasType(get_project_config, "general")

TreeUntouched == dirs = result.pre.dirs /\ files = result.pre.files

\* the envelope of one more validate_project call, without fixes, on the
\* tree as it is now
ValidatedAgain == validate_project(dirs, files, FALSE, result.args.strict_mode).envelope

RestructureReturned == result.op = "restructure" /\ result.success

\* the schema the last successful restructure targeted
TargetSchema == TypeConfig(get_project_config, result.project_type)

\* C12: after a restructure with remove_nonstandard=false, the analysis of
\* validate_project (its listing of the top-level directories and its
\* missing_dirs), run on the resulting tree against the schema the
\* restructure targeted, reports no missing directory.
C12_RoundTripNoMissingDirs ==
    (RestructureReturned /\ ~result.args.remove_nonstandard) =>
        missing_of(TargetSchema.required_dirs,
                   existing_dirs_of(get_project_config, dirs)) = <<>>

\* the envelope of one more restructure_project call with the same payload
\* on the tree as it is now
RestructuredAgain == restructure_project(dirs, files, result.args.backup, result.args.remove_nonstandard, result.args.target_type, TRUE).envelope

\* C13: when restructure_project is run a second time on the project with
\* the same payload and ends up with the same target schema, the second run
\* creates no directory.
C13_SecondRunCreatesNothing ==
    (RestructureReturned /\ RestructuredAgain.success
        /\ RestructuredAgain.project_type = result.project_type)
    => RestructuredAgain.created_directories = <<>>

\* C14: with remove_nonstandard set, the directories a restructure removes
\* are exactly the top-level directories listed at its start that are
\* neither required nor optional in the target schema nor one of .git,
\* .claude, .claude-plugin, __pycache__.
C14_RemovedExactly ==
    (RestructureReturned /\ result.args.remove_nonstandard) =>
        SeqToSet(result.removed_directories) =
            TopLevel(PreDirs) \ (SeqToSet(TargetSchema.required_dirs)
                                 \cup SeqToSet(TargetSchema.optional_dirs)
                                 \cup {<<ReservedNames[i]>> : i \in DOMAIN ReservedNames})

\* C15: every directory a restructure run reports as created is still in the
\* tree when the run returns: the removal step of the same run does not
\* remove it.
C15_CreatedNotRemoved ==
    RestructureReturned =>
        \A i \in DOMAIN result.created_directories : result.created_directories[i] \in dirs

\* a restructuring operation, the handler's or the script's, returned success
AnyRestructureReturned == result.op \in {"restructure", "restructurer"} /\ result.success

\* the required and optional directories of the schema the last successful
\* restructuring operation targeted
TargetDirs ==
    IF result.op = "restructure"
    THEN SeqToSet(TargetSchema.required_dirs) \cup SeqToSet(TargetSchema.optional_dirs)
    ELSE SeqToSet(load_target_structure(result.args.structure).required_directories)
            \cup SeqToSet(load_target_structure(result.args.structure).optional_directories)

\* the required files of that schema, as paths
TargetFiles ==
    IF result.op = "restructure"
    THEN SeqToSet(PathsOf(TargetSchema.required_files))
    ELSE SeqToSet(PathsOf(load_target_structure(result.args.structure).required_files))

ReservedDirs == {<<ReservedNames[i]>> : i \in DOMAIN ReservedNames}

RuleTable(file_name) ==
    CASE ExtensionOf(file_name) \in {".py", ".R"} -> <<"codes">>
      [] ExtensionOf(file_name) = ".md" -> <<"paper">>
      [] ExtensionOf(file_name) \in {".csv", ".xlsx", ".json"} -> <<"data">>
      [] OTHER -> <<>>

\* the file of the starting tree at path source is now at path dest
NowAt(source, dest) == dest \in DOMAIN files /\ files[dest] = result.pre.files[source]

\* the loose files of the starting tree: its top-level files that are not
\* hidden and not required files of the target schema
LooseFiles == {q \in PreFiles : Len(q) = 1 /\ q[1] \notin DotNames} \ TargetFiles

\* C17: after a restructure, every loose file of the starting tree whose
\* extension is routed (.py, .R to codes; .md to paper; .csv, .xlsx, .json
\* to data) is in the routed directory and no longer at the top level,
\* unless that place was taken; a file with any other extension is at its
\* original path.
C17_RoutedByExtension ==
    AnyRestructureReturned =>
        \A f \in LooseFiles :
            IF RuleTable(f[1]) = <<>> THEN f \in DOMAIN files
            ELSE IF RuleTable(f[1]) \o f \in PreFiles THEN f \in DOMAIN files
            ELSE RuleTable(f[1]) \o f \in DOMAIN files /\ f \notin DOMAIN files

\* a move of the top-level file f is planned and its destination is taken
MoveSkipped(f) ==
    /\ f \in LooseFiles
    /\ RuleTable(f[1]) # <<>>
    /\ RuleTable(f[1]) \o f \in PreFiles

\* C18: when the destination of a planned move already held a file of that
\* name and no other step of the script's restructure failed (the backup,
\* reading the tree, reading the configuration file), the restructure
\* succeeds, the source is at its original path and the destination file has
\* the content it had.
C18_SkippedMoveKeepsBoth ==
    \A f \in PreFiles :
        (/\ result.op = "restructurer"
         /\ result.error \notin {"OSError", "FileNotFoundError", "JSONDecodeError", "KeyError"}
         /\ MoveSkipped(f))
        => /\ result.success
           /\ NowAt(f, f)
           /\ NowAt(RuleTable(f[1]) \o f, RuleTable(f[1]) \o f)

\* C19: when a restructure is asked for a backup, the project tree is changed
\* only after the copy was made, the copy being the tree the operation
\* started from; when the copy fails the operation fails and leaves the tree
\* as it was.  Without the flag no copy is made.
C19_BackupBeforeMutation ==
    result.op \in {"restructure", "restructurer"} =>
        /\ result.args.backup =>
               \/ result.backup_taken
               \/ ~result.success /\ TreeUntouched
        /\ ~result.args.backup => ~result.backup_taken

\* C19 witness: the copy of a tree holding a directory the operation would
\* remove and lacking directories it would create failed; the handler
\* returned a failure and the tree is as it was.
C19_Witness ==
    /\ result.op = "restructure"
    /\ result.args.backup
    /\ result.args.remove_nonstandard
    /\ result.args.target_type = "general"
    /\ ~result.backup_taken
    /\ result.errors = <<"OSError">>
    /\ <<"junk">> \in dirs
    /\ TreeUntouched

\* C20: every operation returns an envelope, no exception leaves it, and an
\* envelope that reports an error has success=false, a message and a
\* non-empty errors list.
C20_NeverRaisesPastBoundary ==
    result.op # "none" =>
        /\ result.raised = ""
        /\ ~result.success => result.message # "" /\ result.errors # <<>>

CreateReturned == result.op = "create" /\ result.success

\* C21: no failure envelope of create_project or get_project_status is due
\* to a git call (a non-zero exit status or a missing git executable), and a
\* created project whose git calls failed is reported with
\* git_initialized=false.
C21_GitFailureNeverFatal ==
    result.op \in {"create", "status"} =>
        /\ ~result.success => result.errors # <<"FileNotFoundError">>
        /\ result.git_initialized => <<".git">> \in dirs

\* a name in kebab-case as create_project documents it: it starts with a
\* letter and holds letters, digits and hyphens only
IsKebabCase(name) ==
    /\ name # <<>>
    /\ name[1] = "a"
    /\ \A i \in DOMAIN name : name[i] \in {"a", "1", "-"}

\* the project path is as the call found it
PathUntouched == TreeUntouched /\ root_exists = result.root_existed

\* C22: create_project called with a missing or invalid project name, a
\* missing or unknown project type, or on a path that exists while force is
\* false returns success=false and leaves the project path as it was.
C22_RefusedCreateChangesNothing ==
    (/\ result.op = "create"
     /\ \/ ~IsKebabCase(result.args.project_name)
        \/ ~HasType(get_project_config, result.args.project_type)
        \/ (result.root_existed /\ ~result.args.force))
    => ~result.success /\ PathUntouched

\* the schema of the type the last create_project call was given
CreatedSchema == TypeConfig(get_project_config, result.args.project_type)

\* C24: after a successful create_project for type T the project root
\* exists and holds every required and every optional directory of T with
\* its parents, and the files README.md, .gitignore, project.yml and
\* .project-config.json.
C24_CreatedTreeComplete ==
    CreateReturned =>
        /\ root_exists
        /\ \A i \in DOMAIN CreatedSchema.required_dirs :
               Ancestors(CreatedSchema.required_dirs[i]) \subseteq dirs
        /\ \A i \in DOMAIN CreatedSchema.optional_dirs :
               Ancestors(CreatedSchema.optional_dirs[i]) \subseteq dirs
        /\ \A i \in DOMAIN TemplateFileNames : <<TemplateFileNames[i]>> \in DOMAIN files

\* C25: after a successful create_project with force=True on a path that
\* existed, each of the four template files holds the text generated for
\* the project name and type of this call.
C25_ForceOverwritesTemplateFiles ==
    (CreateReturned /\ result.root_existed /\ result.args.force) =>
        \A i \in DOMAIN TemplateFileNames :
            /\ <<TemplateFileNames[i]>> \in DOMAIN files
            /\ files[<<TemplateFileNames[i]>>] = TemplateContent(result.args.project_type, "create")

\* C29: a project created successfully with a built-in type and validated
\* right away is reported with no missing directory and no missing file and
\* with a score of at least 90, 100 when the Git repository was initialised.
C29_CreatedProjectValidates ==
    (CreateReturned /\ config_file = "absent") =>
        /\ ValidatedAgain.success
        /\ ValidatedAgain.missing_dirs = <<>>
        /\ ValidatedAgain.missing_files = <<>>
        /\ ValidatedAgain.compliance_score >= 90
        /\ result.git_initialized => ValidatedAgain.compliance_score = 100

\* C26: after restructure_project returns success for a target type T,
\* whatever backup and remove_nonstandard were and whatever the tree was,
\* every required directory of T exists in the project tree.
C26_RequiredDirsExistAfterRestructure ==
    RestructureReturned =>
        \A i \in DOMAIN TargetSchema.required_dirs : TargetSchema.required_dirs[i] \in dirs

\* C27: restructure_project with remove_nonstandard=False only adds: every
\* directory and every file the call found is still there with the content
\* it had, README.md, .gitignore, project.yml and .project-config.json
\* included.
C27_RestructureOnlyAdds ==
    (result.op = "restructure" /\ ~result.args.remove_nonstandard) =>
        /\ PreDirs \subseteq dirs
        /\ \A f \in PreFiles : f \in DOMAIN files /\ files[f] = result.pre.files[f]

\* the built-in types whose required directories are nested paths
NestedTypes == {"research-project", "data-analysis", "paper-writing"}

\* C28: with the built-in schemas type detection returns 'general' or None
\* and never research-project, data-analysis or paper-writing: a nested
\* required path is never the name of a top-level directory, so such a type
\* matches at most its one top-level path claude-code, a ratio of 1/6.
C28_BuiltinDetectionGeneralOrNone ==
    (config_file = "absent" /\ result.detected # "not-run") =>
        /\ result.detected \in {"general", NoneValue}
        /\ \A t \in NestedTypes :
               6 * Matches(TypeConfig(get_project_config, t), PreDirs)
                   <= Len(TypeConfig(get_project_config, t).required_dirs)

\* C28 witness: detection ran on a tree that holds data/raw below data/ and
\* claude-code, the research-project schema matched claude-code alone, and
\* the result was 'general'.
C28_Witness ==
    /\ config_file = "absent"
    /\ result.detected = "general"
    /\ {<<"claude-code">>, <<"data">>, <<"data", "raw">>} \subseteq PreDirs
    /\ Matches(TypeConfig(get_project_config, "research-project"), PreDirs) = 1

\* the envelope a validate_project call without fixes returns on the tree
\* the last call started from
ValidatedBefore == validate_project(PreDirs, result.pre.files, FALSE, result.args.strict_mode).envelope

\* C30: with the built-in schemas, after validate_project with
\* fix_issues=True returned success, a validation of the tree as it is now
\* reports no missing directory and no missing file, and the
\* compliance_score the fixing call returned is the score of the tree as it
\* was before the fixes.
C30_FixedTreeHasNothingMissing ==
    (ValidateReturned /\ result.args.fix_issues /\ config_file = "absent") =>
        /\ ValidatedAgain.success
        /\ ValidatedAgain.missing_dirs = <<>>
        /\ ValidatedAgain.missing_files = <<>>
        /\ result.compliance_score = ValidatedBefore.compliance_score

\* the tree restructure_project leaves when call c runs alone on (ds, fs)
AloneOn(c, ds, fs) ==
    restructure_project(ds, fs, FALSE, calls.call[c].remove_nonstandard,
                        calls.call[c].target_type, TRUE)

\* the outcome of running call a and then call b on the starting tree
OneAfterTheOther(a, b) ==
    AloneOn(b, AloneOn(a, calls.start.dirs, calls.start.files).dirs,
               AloneOn(a, calls.start.dirs, calls.start.files).files)

BothReturned == calls.call # <<>> /\ Returned(calls.call[1]) /\ Returned(calls.call[2])

\* C23: concurrent restructure calls on one project path are not safe.  Two
\* calls whose steps did not overlap both succeed and leave the tree of
\* running them one after the other; only an interleaving of their steps
\* ends with a call failed part-way or with another tree (C23_Witness is
\* such an interleaving).
C23_OnlyOverlapIsUnsafe ==
    (BothReturned /\ ~calls.overlapped) =>
        /\ \A c \in {1, 2} : calls.call[c].pc = "done"
        /\ dirs = OneAfterTheOther(calls.first, 3 - calls.first).dirs
        /\ files = OneAfterTheOther(calls.first, 3 - calls.first).files

\* C23 witness: both calls listed the nonstandard directory before either
\* removed it; one removed it, the other failed part-way on it, and the tree
\* is not the one of either sequential order.
C23_Witness ==
    /\ BothReturned
    /\ calls.overlapped
    /\ calls.call[1].pc = "done"
    /\ calls.call[2].pc = "failed"
    /\ \A c \in {1, 2} :
          \/ dirs # OneAfterTheOther(c, 3 - c).dirs
          \/ files # OneAfterTheOther(c, 3 - c).files

====
